---- MODULE Spec2Model ----
(***************************************************************************)
(* Secret Santa Shuffler: the assignment engine (Sattolo shuffle and its  *)
(* validator) and the exchange lifecycle that gates shuffle and reveal.    *)
(*                                                                         *)
(* A JavaScript Map is a sequence of <<key, value>> pairs with distinct    *)
(* keys, in insertion order.  Arrays are sequences; the code's 0-based     *)
(* index i is element i+1.  NULL (0) is SQL NULL / JS null.                *)
(***************************************************************************)
EXTENDS Integers, Sequences, FiniteSets, TLC

\* ------------------------------------------------------------------ bounds
\* longest id list handed to the shuffle in the stand-alone shuffle runs
MaxN == 4
\* number of distinct ids in the mappings handed to the validator
MaxVId == 4

NULL == 0

VARIABLES
    sPc,      \* shuffle run: "call", "loop", "done", "thrown"
    sIds,     \* shuffle run: participantIds argument of createSecretSantaChain
    sArr,     \* shuffle run: the copy being shuffled in place
    sI,       \* shuffle run: loop index i of sattoloShuffleInPlace
    sChain,   \* shuffle run: the returned Map
    vPc,      \* validator run: "call", "done"
    vIn,      \* validator run: the assignments Map argument
    vOut      \* validator run: the returned { valid, error }

pureVars == <<sPc, sIds, sArr, sI, sChain, vPc, vIn, vOut>>

\* ------------------------------------------------------------ Map helpers
Range(s) == {s[k] : k \in DOMAIN s}

MapKeys(m) == {m[k][1] : k \in DOMAIN m}

MapValues(m) == {m[k][2] : k \in DOMAIN m}

MapHas(m, key) == key \in MapKeys(m)

\* Map.get: the value stored under key, NULL (undefined) when absent
MapGet(m, key) ==
    IF MapHas(m, key)
    THEN LET k == CHOOSE k \in DOMAIN m : m[k][1] = key IN m[k][2]
    ELSE NULL

\* Map.set: overwrite in place when the key exists, append otherwise
MapSet(m, key, val) ==
    IF MapHas(m, key)
    THEN [k \in DOMAIN m |-> IF m[k][1] = key THEN <<key, val>> ELSE m[k]]
    ELSE Append(m, <<key, val>>)

\* all sequences of distinct elements of S, of every length in lens
DistinctSeqs(S, lens) ==
    UNION {{s \in [1..n -> S] : \A a, b \in 1..n : a # b => s[a] # s[b]} : n \in lens}

\* --------------------------------------------------------- PermutationEngine
\* the values secureRandomInt(max) can return: array[0] % max, or
\* floor(Math.random() * max)
secureRandomIntFisherYates(max) == 0..max

secureRandomIntAlwaysZero(max) == {0}

secureRandomInt(max) == 0..(max - 1)

\* [array[i], array[j]] = [array[j], array[i]]
Swap(array, i, j) ==
    [array EXCEPT ![i + 1] = array[j + 1], ![j + 1] = array[i + 1]]

\* the arrays the loop of sattoloShuffleInPlace can end with, entered at i
RECURSIVE SattoloLoop(_, _)
SattoloLoop(array, i) ==
    IF i > 0
    THEN UNION {SattoloLoop(Swap(array, i, j), i - 1) : j \in secureRandomInt(i)}
    ELSE {array}

sattoloShuffleInPlace(array) ==
    IF Len(array) < 2 THEN {array} ELSE SattoloLoop(array, Len(array) - 1)

sattoloShuffle(array) == sattoloShuffleInPlace(array)

\* assignments.set(participantIds[i], shuffled[i]) for i = 0 .. length-1
RECURSIVE BuildChain(_, _, _, _)
BuildChain(participantIds, shuffled, i, assignments) ==
    IF i < Len(participantIds)
    THEN BuildChain(participantIds, shuffled, i + 1,
                    MapSet(assignments, participantIds[i + 1], shuffled[i + 1]))
    ELSE assignments

ChainThrows(participantIds) == Len(participantIds) < 2

\* the Maps createSecretSantaChain can return (it throws when ChainThrows)
createSecretSantaChain(participantIds) ==
    {BuildChain(participantIds, shuffled, 0, <<>>) : shuffled \in sattoloShuffle(participantIds)}

\* Array.from(chain.entries())
createSecretSantaAssignments(participantIds) == createSecretSantaChain(participantIds)

\* -------------------------------------------------------- AssignmentValidator
Result(valid, kind, who, count) ==
    [valid |-> valid, kind |-> kind, who |-> who, count |-> count]

\* first element, in iteration order, of the Set built from the Map's values
\* that is not a key
FirstNonSanta(m) ==
    LET bad == {k \in DOMAIN m : ~MapHas(m, m[k][2])}
    IN  IF bad = {} THEN NULL
        ELSE m[CHOOSE k \in bad : \A l \in bad : k <= l][2]

\* first entry, in iteration order, whose key equals its value
FirstSelf(m) ==
    LET bad == {k \in DOMAIN m : m[k][1] = m[k][2]}
    IN  IF bad = {} THEN NULL
        ELSE m[CHOOSE k \in bad : \A l \in bad : k <= l][1]

\* while (current && !visited.has(current)) { visited.add; current = get }
RECURSIVE Traverse(_, _, _)
Traverse(m, current, visited) ==
    IF current # NULL /\ current \notin visited
    THEN Traverse(m, MapGet(m, current), visited \cup {current})
    ELSE [current |-> current, visited |-> visited]

validateAssignmentsNoCycleCheck(assignments) ==
    LET santas == MapKeys(assignments)
        recipients == MapValues(assignments)
    IN  IF Cardinality(santas) # Cardinality(recipients)
        THEN Result(FALSE, "Mismatched", NULL, 0)
        ELSE IF FirstNonSanta(assignments) # NULL
        THEN Result(FALSE, "NotASanta", FirstNonSanta(assignments), 0)
        ELSE IF FirstSelf(assignments) # NULL
        THEN Result(FALSE, "SelfAssignment", FirstSelf(assignments), 0)
        ELSE Result(TRUE, "", NULL, 0)

validateAssignmentsSelfFirst(assignments) ==
    LET santas == MapKeys(assignments)
        recipients == MapValues(assignments)
        start == IF Len(assignments) = 0 THEN NULL ELSE assignments[1][1]
        t == Traverse(assignments, start, {})
    IN  IF FirstSelf(assignments) # NULL
        THEN Result(FALSE, "SelfAssignment", FirstSelf(assignments), 0)
        ELSE IF Cardinality(santas) # Cardinality(recipients)
        THEN Result(FALSE, "Mismatched", NULL, 0)
        ELSE IF FirstNonSanta(assignments) # NULL
        THEN Result(FALSE, "NotASanta", FirstNonSanta(assignments), 0)
        ELSE IF Cardinality(t.visited) # Len(assignments)
        THEN Result(FALSE, "MultipleCycles", NULL, Cardinality(t.visited))
        ELSE IF t.current # start
        THEN Result(FALSE, "NotClosed", NULL, 0)
        ELSE Result(TRUE, "", NULL, 0)

validateAssignments(assignments) ==
    LET santas == MapKeys(assignments)
        recipients == MapValues(assignments)
        start == IF Len(assignments) = 0 THEN NULL ELSE assignments[1][1]
        t == Traverse(assignments, start, {})
    IN  IF Cardinality(santas) # Cardinality(recipients)
        THEN Result(FALSE, "Mismatched", NULL, 0)
        ELSE IF FirstNonSanta(assignments) # NULL
        THEN Result(FALSE, "NotASanta", FirstNonSanta(assignments), 0)
        ELSE IF FirstSelf(assignments) # NULL
        THEN Result(FALSE, "SelfAssignment", FirstSelf(assignments), 0)
        ELSE IF Cardinality(t.visited) # Len(assignments)
        THEN Result(FALSE, "MultipleCycles", NULL, Cardinality(t.visited))
        ELSE IF t.current # start
        THEN Result(FALSE, "NotClosed", NULL, 0)
        ELSE Result(TRUE, "", NULL, 0)

\* ------------------------------------------------- stand-alone shuffle run
SIds == 1..MaxN

NoResult == Result(FALSE, "none", NULL, 0)

SattoloInit ==
    /\ sPc = "call"
    /\ sIds \in DistinctSeqs(SIds, 0..MaxN)
    /\ sArr = <<>>
    /\ sI = 0
    /\ sChain = <<>>
    /\ vPc = "idle"
    /\ vIn = <<>>
    /\ vOut = NoResult

\* createSecretSantaChain up to the first draw: the length check, the copy
ChainEnter ==
    /\ sPc = "call"
    /\ IF ChainThrows(sIds)
       THEN /\ sPc' = "thrown"
            /\ UNCHANGED <<sArr, sI>>
       ELSE /\ sPc' = "loop"
            /\ sArr' = sIds
            /\ sI' = Len(sIds) - 1
    /\ UNCHANGED <<sIds, sChain, vPc, vIn, vOut>>

\* one iteration of the loop of sattoloShuffleInPlace
SattoloSwap ==
    /\ sPc = "loop"
    /\ sI > 0
    /\ \E j \in secureRandomInt(sI) :
          /\ j < Len(sArr)
          /\ sArr' = Swap(sArr, sI, j)
    /\ sI' = sI - 1
    /\ UNCHANGED <<sPc, sIds, sChain, vPc, vIn, vOut>>

\* the loop has ended: build and return the Map
ChainReturn ==
    /\ sPc = "loop"
    /\ sI = 0
    /\ sChain' = BuildChain(sIds, sArr, 0, <<>>)
    /\ sPc' = "done"
    /\ UNCHANGED <<sIds, sArr, sI, vPc, vIn, vOut>>

\* ------------------------------------------------ stand-alone validator run
VIds == 1..MaxVId

\* every Map with the keys in this insertion order, any values
MapsWithKeys(keys) ==
    {[k \in 1..Len(keys) |-> <<keys[k], vals[k]>>] : vals \in [1..Len(keys) -> VIds]}

ValidateInit ==
    /\ sPc = "idle"
    /\ sIds = <<>>
    /\ sArr = <<>>
    /\ sI = 0
    /\ sChain = <<>>
    /\ vPc = "call"
    /\ \E keys \in DistinctSeqs(VIds, 0..MaxVId) : vIn \in MapsWithKeys(keys)
    /\ vOut = NoResult

ValidateCall ==
    /\ vPc = "call"
    /\ vOut' = validateAssignments(vIn)
    /\ vPc' = "done"
    /\ UNCHANGED <<sPc, sIds, sArr, sI, sChain, vIn>>

\* ================================================================ lifecycle
\* One exchange in the store, its participant rows, and the requests in
\* flight.  A request yields at every await of a database call; one action is
\* one database call together with the synchronous code that follows it.
\* Session lookup, organizer lookup and the invite e-mail touch nothing below
\* and are left out.  The exchange's title, description, budget and date,
\* and the rows' e-mail, name and token, are not kept.

\* ------------------------------------------------------------------ bounds
\* participant ids ever generated for the exchange
MaxIds == 3
\* request handlers that can be in flight at once
MaxReqs == 2
\* distinct questionnaire contents a participant can submit
MaxQ == 1
\* addresses, other than those participants were added with, that an address
\* can be corrected to
MaxNewEmails == 1

VARIABLES
    status,           \* exchanges.status
    shuffled_at,      \* exchanges.shuffled_at
    secrets_sent_at,  \* exchanges.secrets_sent_at
    participants,     \* rows of the exchange, in created_at order
    nextId,           \* next id generateId() hands out
    req,              \* per request slot: handler, position, locals
    last,             \* handler and result returned by the step just taken, if any
    allCompleteSent   \* checkAndNotifyAllComplete has mailed the organizer

dbVars == <<status, shuffled_at, secrets_sent_at, participants>>

lifeVars == <<status, shuffled_at, secrets_sent_at, participants, nextId, req, last,
              allCompleteSent>>

vars == <<sPc, sIds, sArr, sI, sChain, vPc, vIn, vOut,
          status, shuffled_at, secrets_sent_at, participants, nextId, req, last,
          allCompleteSent>>

Reqs == 1..MaxReqs

QValues == 1..MaxQ

UNDEF == -1

\* nowUnix(): the time of the call.  Timestamps are kept as set (1) or NULL:
\* no handler compares or computes with them.
nowUnix == 1

\* ExchangeStatus, in lifecycle order
StatusOrder ==
    [draft |-> 0, collecting |-> 1, ready |-> 2, shuffled |-> 3, complete |-> 4]

\* ------------------------------------------------------------ store queries
Row(id) ==
    [id |-> id, email |-> id, questionnaire_completed_at |-> NULL,
     assigned_recipient_id |-> NULL, questionnaire |-> NULL]

Ids(rows) == {rows[k].id : k \in DOMAIN rows}

RowOf(rows, id) == rows[CHOOSE k \in DOMAIN rows : rows[k].id = id]

\* findExchangeById / findExchangeByIdForOrganizer
findExchangeById ==
    [status |-> status, shuffled_at |-> shuffled_at, secrets_sent_at |-> secrets_sent_at]

NoExchange == [status |-> "none", shuffled_at |-> NULL, secrets_sent_at |-> NULL]

\* listParticipantsByExchange: ORDER BY created_at ASC
listParticipantsByExchange == participants

countParticipantsByExchange == Len(participants)

countCompletedQuestionnaires ==
    Cardinality({k \in DOMAIN participants :
                    participants[k].questionnaire_completed_at # NULL})

areAllQuestionnairesComplete ==
    countParticipantsByExchange > 0
        /\ countParticipantsByExchange = countCompletedQuestionnaires

\* findParticipantById / findParticipantByToken
findParticipantById(id) == id \in Ids(participants)

\* findParticipantByExchangeAndEmail: the id of the row found, or NULL
findParticipantByExchangeAndEmail(email) ==
    IF \E k \in DOMAIN participants : participants[k].email = email
    THEN participants[CHOOSE k \in DOMAIN participants : participants[k].email = email].id
    ELSE NULL

\* findQuestionnaireByParticipant
findQuestionnaireByParticipant(id) ==
    IF id \in Ids(participants) THEN RowOf(participants, id).questionnaire ELSE NULL

\* UPDATE participants SET <field> = value WHERE id = id
UpdateRow(rows, id, field, value) ==
    [k \in DOMAIN rows |->
        IF rows[k].id = id THEN [rows[k] EXCEPT ![field] = value] ELSE rows[k]]

\* DELETE FROM participants WHERE id = id (the questionnaire cascades)
RECURSIVE DeleteRow(_, _)
DeleteRow(rows, id) ==
    IF rows = <<>> THEN <<>>
    ELSE IF Head(rows).id = id THEN DeleteRow(Tail(rows), id)
    ELSE <<Head(rows)>> \o DeleteRow(Tail(rows), id)

\* FOREIGN KEY (assigned_recipient_id) REFERENCES participants(id)
Referenced(rows, id) == \E k \in DOMAIN rows : rows[k].assigned_recipient_id = id

\* the values updateExchange binds: input.x ?? existing.x
UpdateExchangeBind(existing, input) ==
    [status |-> IF input.status # "undefined" THEN input.status ELSE existing.status,
     shuffled_at |-> IF input.shuffled_at # UNDEF THEN input.shuffled_at
                     ELSE existing.shuffled_at,
     secrets_sent_at |-> IF input.secrets_sent_at # UNDEF THEN input.secrets_sent_at
                         ELSE existing.secrets_sent_at]

NoInput == [status |-> "undefined", shuffled_at |-> UNDEF, secrets_sent_at |-> UNDEF]

\* --------------------------------------------------------------- requests
Idle ==
    [op |-> "idle", pc |-> "idle", ex |-> NoExchange, ids |-> <<>>, rows |-> <<>>,
     asg |-> <<>>, i |-> 0, n |-> 0, ts |-> NULL, pid |-> NULL, isUpdate |-> FALSE,
     existing |-> FALSE, data |-> NULL, errors |-> 0, mailed |-> <<>>,
     newEmail |-> NULL]

\* a request arrives in the lowest free slot
Free(r) ==
    /\ req[r].op = "idle"
    /\ \A r2 \in Reqs : r2 < r => req[r2].op # "idle"

At(r, op, pc) == req[r].op = op /\ req[r].pc = pc

Return(r, op, result) ==
    /\ req' = [req EXCEPT ![r] = Idle]
    /\ last' = [op |-> op, result |-> result]

NoLast == [op |-> "none", result |-> "none"]

\* the handler goes on to its next database call: nothing is returned yet
Goto(r, rec) ==
    /\ req' = [req EXCEPT ![r] = rec]
    /\ last' = NoLast

LifeInit ==
    /\ status = "draft"
    /\ shuffled_at = NULL
    /\ secrets_sent_at = NULL
    /\ participants = <<>>
    /\ nextId = 1
    /\ req = [r \in Reqs |-> Idle]
    /\ last = NoLast
    /\ allCompleteSent = FALSE

PureIdle ==
    /\ sPc = "idle"
    /\ sIds = <<>>
    /\ sArr = <<>>
    /\ sI = 0
    /\ sChain = <<>>
    /\ vPc = "idle"
    /\ vIn = <<>>
    /\ vOut = NoResult

Init == PureIdle /\ LifeInit

\* a database call of the shuffle's save loop or of its updateExchange throws
\* (or the request is cut off there): the handler's catch returns the error
DbFail(r) ==
    /\ req[r].op = "shuffle"
    /\ req[r].pc \in {"sh_assign", "sh_upd_read", "sh_upd_write"}
    /\ Return(r, req[r].op, "db_error")
    /\ UNCHANGED <<status, shuffled_at, secrets_sent_at, participants, nextId>>
    /\ UNCHANGED <<allCompleteSent, pureVars>>

\* ------------------------------------------------------- useAddParticipant
AddsInFlight == Cardinality({r \in Reqs : req[r].op = "add"})

\* findExchangeByIdForOrganizer and the status check
AddStart(r) ==
    /\ Free(r)
    /\ IF status # "draft" /\ status # "collecting"
       THEN Return(r, "add", "conflict")
       ELSE /\ nextId + AddsInFlight <= MaxIds
            /\ Goto(r, [Idle EXCEPT !.op = "add", !.pc = "add_create",
                                    !.ex = [NoExchange EXCEPT !.status = status]])
    /\ UNCHANGED <<status, shuffled_at, secrets_sent_at, participants, nextId>>
    /\ UNCHANGED <<allCompleteSent, pureVars>>

\* createParticipant
AddCreate(r) ==
    /\ At(r, "add", "add_create")
    /\ participants' = Append(participants, Row(nextId))
    /\ nextId' = nextId + 1
    /\ IF req[r].ex.status = "draft"
       THEN Goto(r, [req[r] EXCEPT !.pc = "add_status"])
       ELSE Return(r, "add", "ok")
    /\ UNCHANGED <<status, shuffled_at, secrets_sent_at>>
    /\ UNCHANGED <<allCompleteSent, pureVars>>

AddStatusNoWrite(r) ==
    /\ At(r, "add", "add_status")
    /\ Return(r, "add", "ok")
    /\ UNCHANGED <<status, shuffled_at, secrets_sent_at, participants, nextId>>
    /\ UNCHANGED <<allCompleteSent, pureVars>>

\* updateExchangeStatus(db, exchangeId, "collecting")
AddStatus(r) ==
    /\ At(r, "add", "add_status")
    /\ status' = "collecting"
    /\ Return(r, "add", "ok")
    /\ UNCHANGED <<shuffled_at, secrets_sent_at, participants, nextId>>
    /\ UNCHANGED <<allCompleteSent, pureVars>>

\* ---------------------------------------------------- useRemoveParticipant
RemoveStart(r, pid) ==
    /\ Free(r)
    /\ IF status = "shuffled" \/ status = "complete"
       THEN Return(r, "remove", "conflict")
       ELSE Goto(r, [Idle EXCEPT !.op = "remove", !.pc = "rm_findp", !.pid = pid])
    /\ UNCHANGED <<status, shuffled_at, secrets_sent_at, participants, nextId>>
    /\ UNCHANGED <<allCompleteSent, pureVars>>

\* findParticipantById
RemoveFind(r) ==
    /\ At(r, "remove", "rm_findp")
    /\ IF ~findParticipantById(req[r].pid)
       THEN Return(r, "remove", "not_found")
       ELSE Goto(r, [req[r] EXCEPT !.pc = "rm_delete"])
    /\ UNCHANGED <<status, shuffled_at, secrets_sent_at, participants, nextId>>
    /\ UNCHANGED <<allCompleteSent, pureVars>>

\* deleteParticipant; a row some edge points at cannot be deleted
RemoveDelete(r) ==
    /\ At(r, "remove", "rm_delete")
    /\ IF Referenced(DeleteRow(participants, req[r].pid), req[r].pid)
       THEN /\ Return(r, "remove", "db_error")
            /\ UNCHANGED participants
       ELSE /\ participants' = DeleteRow(participants, req[r].pid)
            /\ Return(r, "remove", "ok")
    /\ UNCHANGED <<status, shuffled_at, secrets_sent_at, nextId>>
    /\ UNCHANGED <<allCompleteSent, pureVars>>

\* ----------------------------------------------- useUpdateParticipantEmail
\* the addresses a correction can carry: one in use, or a new one
Emails ==
    {participants[k].email : k \in DOMAIN participants}
        \cup ((MaxIds + 1)..(MaxIds + MaxNewEmails))

\* findExchangeByIdForOrganizer; the handler reads no status
EmailStart(r, pid, newEmail) ==
    /\ Free(r)
    /\ Goto(r, [Idle EXCEPT !.op = "email", !.pc = "em_findp", !.pid = pid,
                            !.newEmail = newEmail])
    /\ UNCHANGED <<status, shuffled_at, secrets_sent_at, participants, nextId>>
    /\ UNCHANGED <<allCompleteSent, pureVars>>

\* findParticipantById
EmailFind(r) ==
    /\ At(r, "email", "em_findp")
    /\ IF ~findParticipantById(req[r].pid)
       THEN Return(r, "email", "not_found")
       ELSE Goto(r, [req[r] EXCEPT !.pc = "em_dup"])
    /\ UNCHANGED <<status, shuffled_at, secrets_sent_at, participants, nextId>>
    /\ UNCHANGED <<allCompleteSent, pureVars>>

\* findParticipantByExchangeAndEmail: the address is another participant's
EmailDup(r) ==
    /\ At(r, "email", "em_dup")
    /\ LET existing == findParticipantByExchangeAndEmail(req[r].newEmail)
       IN  IF existing # NULL /\ existing # req[r].pid
           THEN Return(r, "email", "duplicate")
           ELSE Goto(r, [req[r] EXCEPT !.pc = "em_write"])
    /\ UNCHANGED <<status, shuffled_at, secrets_sent_at, participants, nextId>>
    /\ UNCHANGED <<allCompleteSent, pureVars>>

\* updateParticipantEmail
EmailWrite(r) ==
    /\ At(r, "email", "em_write")
    /\ participants' = UpdateRow(participants, req[r].pid, "email", req[r].newEmail)
    /\ Return(r, "email", "ok")
    /\ UNCHANGED <<status, shuffled_at, secrets_sent_at, nextId>>
    /\ UNCHANGED <<allCompleteSent, pureVars>>

\* ------------------------------------------------------- useUpdateExchange
EditStart(r) ==
    /\ Free(r)
    /\ IF status = "shuffled" \/ status = "complete"
       THEN Return(r, "edit", "conflict")
       ELSE Goto(r, [Idle EXCEPT !.op = "edit", !.pc = "ed_upd_read"])
    /\ UNCHANGED <<status, shuffled_at, secrets_sent_at, participants, nextId>>
    /\ UNCHANGED <<allCompleteSent, pureVars>>

\* updateExchange: existing = findExchangeById
EditUpdRead(r) ==
    /\ At(r, "edit", "ed_upd_read")
    /\ Goto(r, [req[r] EXCEPT !.pc = "ed_upd_write", !.ex = findExchangeById])
    /\ UNCHANGED <<status, shuffled_at, secrets_sent_at, participants, nextId>>
    /\ UNCHANGED <<allCompleteSent, pureVars>>

\* updateExchange: UPDATE exchanges SET ... with title, description, budget
\* and date from the form and the rest from existing
EditUpdWrite(r) ==
    /\ At(r, "edit", "ed_upd_write")
    /\ LET b == UpdateExchangeBind(req[r].ex, NoInput)
       IN  /\ status' = b.status
           /\ shuffled_at' = b.shuffled_at
           /\ secrets_sent_at' = b.secrets_sent_at
    /\ Return(r, "edit", "ok")
    /\ UNCHANGED <<participants, nextId>>
    /\ UNCHANGED <<allCompleteSent, pureVars>>

\* -------------------------------------------------- useSubmitQuestionnaire
\* findParticipantByToken, for the token of a participant ever created
SubmitStart(r, pid, data) ==
    /\ Free(r)
    /\ IF ~findParticipantById(pid)
       THEN Return(r, "submit", "not_found")
       ELSE Goto(r, [Idle EXCEPT !.op = "submit", !.pc = "sq_findex",
                                 !.pid = pid, !.data = data])
    /\ UNCHANGED <<status, shuffled_at, secrets_sent_at, participants, nextId>>
    /\ UNCHANGED <<allCompleteSent, pureVars>>

\* findExchangeById and the status check
SubmitFindEx(r) ==
    /\ At(r, "submit", "sq_findex")
    /\ IF status = "shuffled" \/ status = "complete"
       THEN Return(r, "submit", "conflict")
       ELSE Goto(r, [req[r] EXCEPT !.pc = "sq_findq"])
    /\ UNCHANGED <<status, shuffled_at, secrets_sent_at, participants, nextId>>
    /\ UNCHANGED <<allCompleteSent, pureVars>>

\* existingQuestionnaire = findQuestionnaireByParticipant; isUpdate
SubmitFindQ(r) ==
    /\ At(r, "submit", "sq_findq")
    /\ Goto(r, [req[r] EXCEPT !.pc = "sq_up_read",
                   !.isUpdate = (findQuestionnaireByParticipant(req[r].pid) # NULL)])
    /\ UNCHANGED <<status, shuffled_at, secrets_sent_at, participants, nextId>>
    /\ UNCHANGED <<allCompleteSent, pureVars>>

\* upsertQuestionnaire: existing = findQuestionnaireByParticipant
SubmitUpRead(r) ==
    /\ At(r, "submit", "sq_up_read")
    /\ Goto(r, [req[r] EXCEPT !.pc = "sq_up_write",
                   !.existing = (findQuestionnaireByParticipant(req[r].pid) # NULL)])
    /\ UNCHANGED <<status, shuffled_at, secrets_sent_at, participants, nextId>>
    /\ UNCHANGED <<allCompleteSent, pureVars>>

\* upsertQuestionnaire: the UPDATE or the INSERT, and the read back; then the
\* call of markQuestionnaireCompleted reads the clock
SubmitUpWrite(r) ==
    /\ At(r, "submit", "sq_up_write")
    /\ LET pid == req[r].pid
           stored == findQuestionnaireByParticipant(pid)
           \* INSERT: participant_id is UNIQUE and references participants(id)
           throws == IF req[r].existing THEN stored = NULL
                     ELSE ~findParticipantById(pid) \/ stored # NULL
       IN  IF throws
           THEN /\ Return(r, "submit", "db_error")
                /\ UNCHANGED participants
           ELSE /\ participants' = UpdateRow(participants, pid, "questionnaire", req[r].data)
                /\ IF req[r].isUpdate
                   THEN Return(r, "submit", "ok")
                   ELSE Goto(r, [req[r] EXCEPT !.pc = "sq_mark", !.ts = nowUnix])
    /\ UNCHANGED <<status, shuffled_at, secrets_sent_at, nextId>>
    /\ UNCHANGED <<allCompleteSent, pureVars>>

\* markQuestionnaireCompleted; the all-complete check that follows only
\* decides whether the organizer is mailed
SubmitMark(r) ==
    /\ At(r, "submit", "sq_mark")
    /\ participants' = UpdateRow(participants, req[r].pid,
                                 "questionnaire_completed_at", req[r].ts)
    /\ Return(r, "submit", "ok")
    /\ UNCHANGED <<status, shuffled_at, secrets_sent_at, nextId>>
    /\ UNCHANGED <<allCompleteSent, pureVars>>

\* ------------------------------------------------ checkAndNotifyAllComplete
\* areAllQuestionnairesComplete: total = countParticipantsByExchange
NotifyStart(r) ==
    /\ Free(r)
    /\ Goto(r, [Idle EXCEPT !.op = "notify", !.pc = "nt_completed",
                            !.n = countParticipantsByExchange])
    /\ UNCHANGED <<status, shuffled_at, secrets_sent_at, participants, nextId>>
    /\ UNCHANGED <<allCompleteSent, pureVars>>

NotifyCompletedNoCheck(r) ==
    /\ At(r, "notify", "nt_completed")
    /\ Goto(r, [req[r] EXCEPT !.pc = "nt_find", !.n = 0])
    /\ UNCHANGED <<status, shuffled_at, secrets_sent_at, participants, nextId>>
    /\ UNCHANGED <<allCompleteSent, pureVars>>

\* areAllQuestionnairesComplete: completed = countCompletedQuestionnaires
NotifyCompleted(r) ==
    /\ At(r, "notify", "nt_completed")
    /\ IF ~(req[r].n > 0 /\ req[r].n = countCompletedQuestionnaires)
       THEN Return(r, "notify", "not_complete")
       ELSE Goto(r, [req[r] EXCEPT !.pc = "nt_find", !.n = 0])
    /\ UNCHANGED <<status, shuffled_at, secrets_sent_at, participants, nextId>>
    /\ UNCHANGED <<allCompleteSent, pureVars>>

NotifyFindNoStatusCheck(r) ==
    /\ At(r, "notify", "nt_find")
    /\ Goto(r, [req[r] EXCEPT !.pc = "nt_write"])
    /\ UNCHANGED <<status, shuffled_at, secrets_sent_at, participants, nextId>>
    /\ UNCHANGED <<allCompleteSent, pureVars>>

\* findExchangeById and the status check
NotifyFind(r) ==
    /\ At(r, "notify", "nt_find")
    /\ IF status # "collecting"
       THEN Return(r, "notify", "not_collecting")
       ELSE Goto(r, [req[r] EXCEPT !.pc = "nt_write"])
    /\ UNCHANGED <<status, shuffled_at, secrets_sent_at, participants, nextId>>
    /\ UNCHANGED <<allCompleteSent, pureVars>>

\* updateExchangeStatus(db, exchangeId, "ready"), then
\* sendAllCompleteNotification, which succeeds or not
NotifyWrite(r, delivered) ==
    /\ At(r, "notify", "nt_write")
    /\ status' = "ready"
    /\ IF delivered
       THEN /\ allCompleteSent' = TRUE
            /\ Return(r, "notify", "notified")
       ELSE /\ UNCHANGED allCompleteSent
            /\ Return(r, "notify", "mail_failed")
    /\ UNCHANGED <<shuffled_at, secrets_sent_at, participants, nextId>>
    /\ UNCHANGED pureVars

\* -------------------------------------------------------- useShuffleAction
ShuffleStartNoStatusCheck(r) ==
    /\ Free(r)
    /\ Goto(r, [Idle EXCEPT !.op = "shuffle", !.pc = "sh_list"])
    /\ UNCHANGED <<status, shuffled_at, secrets_sent_at, participants, nextId>>
    /\ UNCHANGED <<allCompleteSent, pureVars>>

\* findExchangeByIdForOrganizer and the status check
ShuffleStart(r) ==
    /\ Free(r)
    /\ IF status # "collecting" /\ status # "ready"
       THEN Return(r, "shuffle", "conflict")
       ELSE Goto(r, [Idle EXCEPT !.op = "shuffle", !.pc = "sh_list"])
    /\ UNCHANGED <<status, shuffled_at, secrets_sent_at, participants, nextId>>
    /\ UNCHANGED <<allCompleteSent, pureVars>>

ShuffleListAllowsOne(r) ==
    /\ At(r, "shuffle", "sh_list")
    /\ LET list == listParticipantsByExchange
       IN  IF Len(list) < 1
           THEN Return(r, "shuffle", "too_few")
           ELSE Goto(r, [req[r] EXCEPT !.pc = "sh_count",
                            !.ids = [k \in DOMAIN list |-> list[k].id]])
    /\ UNCHANGED <<status, shuffled_at, secrets_sent_at, participants, nextId>>
    /\ UNCHANGED <<allCompleteSent, pureVars>>

\* listParticipantsByExchange and the count check
ShuffleList(r) ==
    /\ At(r, "shuffle", "sh_list")
    /\ LET list == listParticipantsByExchange
       IN  IF Len(list) < 2
           THEN Return(r, "shuffle", "too_few")
           ELSE Goto(r, [req[r] EXCEPT !.pc = "sh_count",
                            !.ids = [k \in DOMAIN list |-> list[k].id]])
    /\ UNCHANGED <<status, shuffled_at, secrets_sent_at, participants, nextId>>
    /\ UNCHANGED <<allCompleteSent, pureVars>>

ShuffleGenerateIgnoresValidation(r, candidates) ==
    /\ At(r, "shuffle", "sh_count")
    /\ IF countCompletedQuestionnaires # Len(req[r].ids)
       THEN Return(r, "shuffle", "incomplete")
       ELSE IF ChainThrows(req[r].ids)
       THEN Return(r, "shuffle", "db_error")
       ELSE \E assignments \in candidates :
               Goto(r, [req[r] EXCEPT !.pc = "sh_assign", !.ids = <<>>,
                           !.asg = assignments, !.i = 0])
    /\ UNCHANGED <<status, shuffled_at, secrets_sent_at, participants, nextId>>
    /\ UNCHANGED <<allCompleteSent, pureVars>>

\* countCompletedQuestionnaires and the completeness check, then the
\* generator and the validator on its output
ShuffleGenerate(r, candidates) ==
    /\ At(r, "shuffle", "sh_count")
    /\ IF countCompletedQuestionnaires # Len(req[r].ids)
       THEN Return(r, "shuffle", "incomplete")
       ELSE IF ChainThrows(req[r].ids)
       THEN Return(r, "shuffle", "db_error")
       ELSE \E assignments \in candidates :
               IF ~validateAssignments(assignments).valid
               THEN Return(r, "shuffle", "validation")
               ELSE Goto(r, [req[r] EXCEPT !.pc = "sh_assign", !.ids = <<>>,
                                !.asg = assignments, !.i = 0])
    /\ UNCHANGED <<status, shuffled_at, secrets_sent_at, participants, nextId>>
    /\ UNCHANGED <<allCompleteSent, pureVars>>

ShuffleCount(r) == ShuffleGenerate(r, createSecretSantaAssignments(req[r].ids))

\* the same step with a defective generator: any Map over the ids read
AnyAssignments(ids) ==
    {[k \in DOMAIN ids |-> <<ids[k], to[k]>>] : to \in [DOMAIN ids -> Range(ids)]}

ShuffleCountFault(r) == ShuffleGenerate(r, AnyAssignments(req[r].ids))

\* one assignRecipient of the save loop; after the last one the call of
\* updateExchange reads the clock
ShuffleAssign(r) ==
    /\ At(r, "shuffle", "sh_assign")
    /\ LET santaId == req[r].asg[req[r].i + 1][1]
           recipientId == req[r].asg[req[r].i + 1][2]
       IN  IF findParticipantById(santaId) /\ ~findParticipantById(recipientId)
           THEN /\ Return(r, "shuffle", "db_error")
                /\ UNCHANGED participants
           ELSE /\ participants' = UpdateRow(participants, santaId,
                                             "assigned_recipient_id", recipientId)
                /\ IF req[r].i + 1 < Len(req[r].asg)
                   THEN Goto(r, [req[r] EXCEPT !.i = req[r].i + 1])
                   ELSE Goto(r, [req[r] EXCEPT !.pc = "sh_upd_read", !.asg = <<>>,
                                    !.i = 0, !.ts = nowUnix])
    /\ UNCHANGED <<status, shuffled_at, secrets_sent_at, nextId>>
    /\ UNCHANGED <<allCompleteSent, pureVars>>

\* updateExchange: existing = findExchangeById
ShuffleUpdRead(r) ==
    /\ At(r, "shuffle", "sh_upd_read")
    /\ Goto(r, [req[r] EXCEPT !.pc = "sh_upd_write", !.ex = findExchangeById])
    /\ UNCHANGED <<status, shuffled_at, secrets_sent_at, participants, nextId>>
    /\ UNCHANGED <<allCompleteSent, pureVars>>

\* updateExchange: UPDATE exchanges SET ... { status: "shuffled", shuffled_at }
ShuffleUpdWrite(r) ==
    /\ At(r, "shuffle", "sh_upd_write")
    /\ LET b == UpdateExchangeBind(req[r].ex,
                    [NoInput EXCEPT !.status = "shuffled", !.shuffled_at = req[r].ts])
       IN  /\ status' = b.status
           /\ shuffled_at' = b.shuffled_at
           /\ secrets_sent_at' = b.secrets_sent_at
    /\ Return(r, "shuffle", "ok")
    /\ UNCHANGED <<participants, nextId>>
    /\ UNCHANGED <<allCompleteSent, pureVars>>

\* ---------------------------------------------------- useSendSecretsAction
SendStartNoStatusCheck(r) ==
    /\ Free(r)
    /\ IF secrets_sent_at # NULL
       THEN Return(r, "send", "already_sent")
       ELSE Goto(r, [Idle EXCEPT !.op = "send", !.pc = "ss_list"])
    /\ UNCHANGED <<status, shuffled_at, secrets_sent_at, participants, nextId>>
    /\ UNCHANGED <<allCompleteSent, pureVars>>

SendStartNoSentCheck(r) ==
    /\ Free(r)
    /\ IF status # "shuffled"
       THEN Return(r, "send", "conflict")
       ELSE Goto(r, [Idle EXCEPT !.op = "send", !.pc = "ss_list"])
    /\ UNCHANGED <<status, shuffled_at, secrets_sent_at, participants, nextId>>
    /\ UNCHANGED <<allCompleteSent, pureVars>>

\* findExchangeByIdForOrganizer, the status check, the secrets_sent_at check
SendStart(r) ==
    /\ Free(r)
    /\ IF status # "shuffled"
       THEN Return(r, "send", "conflict")
       ELSE IF secrets_sent_at # NULL
       THEN Return(r, "send", "already_sent")
       ELSE Goto(r, [Idle EXCEPT !.op = "send", !.pc = "ss_list"])
    /\ UNCHANGED <<status, shuffled_at, secrets_sent_at, participants, nextId>>
    /\ UNCHANGED <<allCompleteSent, pureVars>>

\* the response of a send run that reached its loop: sentCount and the
\* number of errors; mailed lists the santas sendSecretSantaAssignment was
\* called for
ReturnSend(r, result, sentCount, errors, mailed) ==
    /\ req' = [req EXCEPT ![r] = Idle]
    /\ last' = [op |-> "send", result |-> result, sentCount |-> sentCount,
                errors |-> errors, mailed |-> mailed]

\* what follows the send loop: sentCount against participants.length
SendDecide(r, rec, sentCount, errors, mailed, total) ==
    IF sentCount = total
    THEN Goto(r, [rec EXCEPT !.pc = "ss_upd_read", !.rows = <<>>, !.i = 0,
                     !.n = sentCount, !.errors = errors, !.mailed = mailed,
                     !.isUpdate = TRUE, !.ts = nowUnix])
    ELSE IF sentCount > 0
    THEN Goto(r, [rec EXCEPT !.pc = "ss_upd_read", !.rows = <<>>, !.i = 0,
                     !.n = sentCount, !.errors = errors, !.mailed = mailed,
                     !.isUpdate = FALSE, !.ts = nowUnix])
    ELSE ReturnSend(r, "none_sent", sentCount, errors, mailed)

\* listParticipantsByExchange; of each row the loop reads id and
\* assigned_recipient_id (and the address it mails to)
SendList(r) ==
    /\ At(r, "send", "ss_list")
    /\ LET list == listParticipantsByExchange
       IN  IF Len(list) = 0
           THEN SendDecide(r, req[r], 0, 0, <<>>, 0)
           ELSE Goto(r, [req[r] EXCEPT !.pc = "ss_send", !.i = 0, !.n = 0,
                            !.rows = [k \in DOMAIN list |->
                                [id |-> list[k].id,
                                 assigned_recipient_id |-> list[k].assigned_recipient_id]]])
    /\ UNCHANGED <<status, shuffled_at, secrets_sent_at, participants, nextId>>
    /\ UNCHANGED <<allCompleteSent, pureVars>>

\* the loop reaches the mail for this santa: it has an assignment, the
\* recipient is in the list, and the recipient's questionnaire is found
Resolved(rows, santa) ==
    /\ santa.assigned_recipient_id # NULL
    /\ santa.assigned_recipient_id \in Ids(rows)
    /\ findQuestionnaireByParticipant(santa.assigned_recipient_id) # NULL

SendOneStopsOnFailure(r, delivered) ==
    /\ At(r, "send", "ss_send")
    /\ LET rows == req[r].rows
           santa == rows[req[r].i + 1]
           called == Resolved(rows, santa)
           sent == called /\ delivered
           sentCount == IF sent THEN req[r].n + 1 ELSE req[r].n
           errors == IF sent THEN req[r].errors ELSE req[r].errors + 1
           mailed == IF called THEN Append(req[r].mailed, santa.id) ELSE req[r].mailed
       IN  /\ (~delivered) => called
           /\ IF req[r].i + 1 < Len(rows) /\ sent
              THEN Goto(r, [req[r] EXCEPT !.i = req[r].i + 1, !.n = sentCount,
                               !.errors = errors, !.mailed = mailed])
              ELSE SendDecide(r, req[r], sentCount, errors, mailed, Len(rows))
    /\ UNCHANGED <<status, shuffled_at, secrets_sent_at, participants, nextId>>
    /\ UNCHANGED <<allCompleteSent, pureVars>>

\* one iteration of the send loop: the skips, the questionnaire read, and the
\* mail, which succeeds or fails (delivered)
SendOne(r, delivered) ==
    /\ At(r, "send", "ss_send")
    /\ LET rows == req[r].rows
           santa == rows[req[r].i + 1]
           called == Resolved(rows, santa)
           sent == called /\ delivered
           sentCount == IF sent THEN req[r].n + 1 ELSE req[r].n
           errors == IF sent THEN req[r].errors ELSE req[r].errors + 1
           mailed == IF called THEN Append(req[r].mailed, santa.id) ELSE req[r].mailed
       IN  /\ (~delivered) => called
           /\ IF req[r].i + 1 < Len(rows)
              THEN Goto(r, [req[r] EXCEPT !.i = req[r].i + 1, !.n = sentCount,
                               !.errors = errors, !.mailed = mailed])
              ELSE SendDecide(r, req[r], sentCount, errors, mailed, Len(rows))
    /\ UNCHANGED <<status, shuffled_at, secrets_sent_at, participants, nextId>>
    /\ UNCHANGED <<allCompleteSent, pureVars>>

\* updateExchange: existing = findExchangeById
SendUpdRead(r) ==
    /\ At(r, "send", "ss_upd_read")
    /\ Goto(r, [req[r] EXCEPT !.pc = "ss_upd_write", !.ex = findExchangeById])
    /\ UNCHANGED <<status, shuffled_at, secrets_sent_at, participants, nextId>>
    /\ UNCHANGED <<allCompleteSent, pureVars>>

SendUpdWriteAlwaysComplete(r) ==
    /\ At(r, "send", "ss_upd_write")
    /\ LET input == [NoInput EXCEPT !.status = "complete",
                                    !.secrets_sent_at = req[r].ts]
           b == UpdateExchangeBind(req[r].ex, input)
       IN  /\ status' = b.status
           /\ shuffled_at' = b.shuffled_at
           /\ secrets_sent_at' = b.secrets_sent_at
    /\ ReturnSend(r, IF req[r].isUpdate THEN "ok" ELSE "partial",
                  req[r].n, req[r].errors, req[r].mailed)
    /\ UNCHANGED <<participants, nextId>>
    /\ UNCHANGED <<allCompleteSent, pureVars>>

\* updateExchange: { status: "complete", secrets_sent_at } when all were
\* sent, { secrets_sent_at } when some were
SendUpdWrite(r) ==
    /\ At(r, "send", "ss_upd_write")
    /\ LET input == IF req[r].isUpdate
                    THEN [NoInput EXCEPT !.status = "complete",
                                         !.secrets_sent_at = req[r].ts]
                    ELSE [NoInput EXCEPT !.secrets_sent_at = req[r].ts]
           b == UpdateExchangeBind(req[r].ex, input)
       IN  /\ status' = b.status
           /\ shuffled_at' = b.shuffled_at
           /\ secrets_sent_at' = b.secrets_sent_at
    /\ ReturnSend(r, IF req[r].isUpdate THEN "ok" ELSE "partial",
                  req[r].n, req[r].errors, req[r].mailed)
    /\ UNCHANGED <<participants, nextId>>
    /\ UNCHANGED <<allCompleteSent, pureVars>>

\* ------------------------------------------------------------ specifications
EverCreated == 1..(nextId - 1)

\* every step of the requests in slots R but the shuffle's generate step
Others(R) ==
    \/ \E r \in R : AddStart(r)
    \/ \E r \in R : AddCreate(r)
    \/ \E r \in R : AddStatus(r)
    \/ \E r \in R : \E pid \in EverCreated : RemoveStart(r, pid)
    \/ \E r \in R : RemoveFind(r)
    \/ \E r \in R : RemoveDelete(r)
    \/ \E r \in R : EditStart(r)
    \/ \E r \in R : EditUpdRead(r)
    \/ \E r \in R : EditUpdWrite(r)
    \/ \E r \in R : \E pid \in EverCreated : \E data \in QValues : SubmitStart(r, pid, data)
    \/ \E r \in R : SubmitFindEx(r)
    \/ \E r \in R : SubmitFindQ(r)
    \/ \E r \in R : SubmitUpRead(r)
    \/ \E r \in R : SubmitUpWrite(r)
    \/ \E r \in R : SubmitMark(r)
    \/ \E r \in R : NotifyStart(r)
    \/ \E r \in R : NotifyCompleted(r)
    \/ \E r \in R : NotifyFind(r)
    \/ \E r \in R : \E delivered \in BOOLEAN : NotifyWrite(r, delivered)
    \/ \E r \in R : ShuffleStart(r)
    \/ \E r \in R : ShuffleList(r)
    \/ \E r \in R : ShuffleAssign(r)
    \/ \E r \in R : ShuffleUpdRead(r)
    \/ \E r \in R : ShuffleUpdWrite(r)
    \/ \E r \in R : SendStart(r)
    \/ \E r \in R : SendList(r)
    \/ \E r \in R : \E delivered \in BOOLEAN : SendOne(r, delivered)
    \/ \E r \in R : SendUpdRead(r)
    \/ \E r \in R : SendUpdWrite(r)

\* the handlers, their database calls interleaved, every call succeeding
Next ==
    \/ Others(Reqs)
    \/ \E r \in Reqs : ShuffleCount(r)

Spec == Init /\ [][Next]_vars

\* the handlers around a generator that can return any Map
FaultNext ==
    \/ Others(Reqs)
    \/ \E r \in Reqs : ShuffleCountFault(r)

SpecFault == Init /\ [][FaultNext]_vars

\* the handlers one request at a time: a request returns before the next
\* arrives; with the correction of a participant's address
SeqNext ==
    \/ Others({1})
    \/ ShuffleCount(1)
    \/ \E pid \in EverCreated : \E newEmail \in Emails : EmailStart(1, pid, newEmail)
    \/ EmailFind(1)
    \/ EmailDup(1)
    \/ EmailWrite(1)

SpecSeq == Init /\ [][SeqNext]_vars

\* the way to a shuffle (add, submit, shuffle) with database calls of the
\* commit that can fail
FailNext ==
    \/ \E r \in Reqs : AddStart(r)
    \/ \E r \in Reqs : AddCreate(r)
    \/ \E r \in Reqs : AddStatus(r)
    \/ \E r \in Reqs : \E pid \in EverCreated : \E data \in QValues : SubmitStart(r, pid, data)
    \/ \E r \in Reqs : SubmitFindEx(r)
    \/ \E r \in Reqs : SubmitFindQ(r)
    \/ \E r \in Reqs : SubmitUpRead(r)
    \/ \E r \in Reqs : SubmitUpWrite(r)
    \/ \E r \in Reqs : SubmitMark(r)
    \/ \E r \in Reqs : ShuffleStart(r)
    \/ \E r \in Reqs : ShuffleList(r)
    \/ \E r \in Reqs : ShuffleCount(r)
    \/ \E r \in Reqs : ShuffleAssign(r)
    \/ \E r \in Reqs : ShuffleUpdRead(r)
    \/ \E r \in Reqs : ShuffleUpdWrite(r)
    \/ \E r \in Reqs : DbFail(r)

SpecFail == Init /\ [][FailNext]_vars

\* the shuffle engine alone
SattoloNext ==
    \/ (ChainEnter /\ UNCHANGED lifeVars)
    \/ (SattoloSwap /\ UNCHANGED lifeVars)
    \/ (ChainReturn /\ UNCHANGED lifeVars)

SattoloStart == SattoloInit /\ LifeInit

SpecSattolo == SattoloStart /\ [][SattoloNext]_vars

\* the validator alone
ValidateNext == ValidateCall /\ UNCHANGED lifeVars

ValidateStart == ValidateInit /\ LifeInit

SpecValidate == ValidateStart /\ [][ValidateNext]_vars

\* ================================================================ properties
\* a Map read as a function from its keys
Fn(m) == [x \in MapKeys(m) |-> m[CHOOSE k \in DOMAIN m : m[k][1] = x][2]]

\* f applied k times to x
RECURSIVE Iter(_, _, _)
Iter(f, x, k) == IF k = 0 THEN x ELSE Iter(f, f[x], k - 1)

\* f maps S onto S
OntoItself(f, S) == DOMAIN f = S /\ {f[x] : x \in S} = S

NoFixedPoint(f) == \A x \in DOMAIN f : f[x] # x

\* from x, f comes back to x after exactly n steps and not before
CycleFrom(f, x, n) ==
    /\ \A k \in 1..(n - 1) : Iter(f, x, k) # x
    /\ Iter(f, x, n) = x

\* f is one cycle through all of S
OneCycle(f, S) ==
    /\ OntoItself(f, S)
    /\ NoFixedPoint(f)
    /\ \A x \in S : CycleFrom(f, x, Cardinality(S))

\* C1: for n >= 2 distinct ids and every sequence of draws, the Map returned
\* by createSecretSantaChain is a bijection on the ids, maps no id to itself,
\* and is one cycle of length n: from any id the walk returns after exactly n
\* steps.
C1_ChainIsOneCycle ==
    sPc = "done" => Len(sIds) >= 2 /\ OneCycle(Fn(sChain), Range(sIds))

C1_Witness == sPc = "done" /\ Len(sIds) >= 3

\* the three conditions of a valid assignment, on a non-empty Map
ThreeChecks(m) ==
    /\ MapKeys(m) = MapValues(m)
    /\ \A k \in DOMAIN m : m[k][1] # m[k][2]
    /\ {Iter(Fn(m), m[1][1], k) : k \in 0..(Len(m) - 1)} = MapKeys(m)
    /\ Iter(Fn(m), m[1][1], Len(m)) = m[1][1]

\* C2: on a non-empty Map validateAssignments returns valid exactly when the
\* key set equals the value set, no key maps to itself, and the walk from the
\* first key visits every key once and returns to the start; otherwise it
\* returns invalid with a reason.
C2_ValidIffThreeChecks ==
    (vPc = "done" /\ Len(vIn) > 0) =>
        /\ vOut.valid <=> ThreeChecks(vIn)
        /\ ~vOut.valid =>
              vOut.kind \in {"Mismatched", "NotASanta", "SelfAssignment",
                             "MultipleCycles", "NotClosed"}

\* a Map that passes the first two checks and fails the third
C2_Witness == vPc = "done" /\ vOut.kind = "MultipleCycles"

\* -------------------------------------------------------------- lifecycle
\* the stored edges as a function on the current participants
EdgeFn == [id \in Ids(participants) |-> RowOf(participants, id).assigned_recipient_id]

HasEdge(id) == EdgeFn[id] # NULL

AllComplete ==
    \A k \in DOMAIN participants : participants[k].questionnaire_completed_at # NULL

\* a shuffle request is in its commit: the save loop or updateExchange
InCommit(r) ==
    req[r].op = "shuffle" /\ req[r].pc \in {"sh_assign", "sh_upd_read", "sh_upd_write"}

\* a shuffle request that has written at least one edge
WroteEdge(r) ==
    InCommit(r) /\ (req[r].pc = "sh_assign" => req[r].i >= 1)

\* this step is the arrival of a request of handler op: it takes a slot, or
\* it returns at once
CallStep(op) ==
    \/ \E r \in Reqs : req[r].op = "idle" /\ req'[r].op = op
    \/ req' = req /\ last'.op = op /\ last' # last

DbUnchanged ==
    /\ status' = status
    /\ shuffled_at' = shuffled_at
    /\ secrets_sent_at' = secrets_sent_at
    /\ participants' = participants

\* C3: no step moves the exchange's status to an earlier value of
\* Draft < Collecting < Ready < Shuffled < Complete.
C3_StatusMonotonic == [][StatusOrder[status'] >= StatusOrder[status]]_vars

\* C4: of two shuffle requests running at the same time at most one writes
\* assignment edges; the other returns a conflict without writing any.
C4_OneShuffleWrites == Cardinality({r \in Reqs : WroteEdge(r)}) <= 1

\* C5: a shuffle call that finds the status Shuffled or Complete returns an
\* error at once, and every edge, the status and shuffled_at stay as they are.
C5_ShuffledRejectsShuffle ==
    [][(CallStep("shuffle") /\ status \in {"shuffled", "complete"}) =>
          /\ req' = req
          /\ last'.result = "conflict"
          /\ DbUnchanged]_vars

\* a shuffle was refused on an exchange whose earlier shuffle is stored
C5_Witness ==
    /\ last = [op |-> "shuffle", result |-> "conflict"]
    /\ status \in {"shuffled", "complete"}
    /\ shuffled_at # NULL
    /\ Len(participants) >= 2
    /\ \A id \in Ids(participants) : HasEdge(id)

\* C6: whenever the status is Shuffled or Complete, the stored edges are a
\* bijection on the current participants, without fixed point, forming one
\* cycle through all of them.
C6_EdgesAreOneCycle ==
    status \in {"shuffled", "complete"} => OneCycle(EdgeFn, Ids(participants))

\* C7: the commit is atomic: either no participant has an edge and the
\* status is before Shuffled, or every participant has one and the status is
\* Shuffled or later; stated for the states in which no shuffle is in its
\* commit, among them those a failed write leaves behind.
C7_CommitAtomic ==
    (\A r \in Reqs : ~InCommit(r)) =>
        \/ /\ \A id \in Ids(participants) : ~HasEdge(id)
           /\ status \in {"draft", "collecting", "ready"}
        \/ /\ \A id \in Ids(participants) : HasEdge(id)
           /\ status \in {"shuffled", "complete"}

\* C8: once a participant's assigned_recipient_id is non-null no step changes
\* or clears it.
C8_EdgeWrittenOnce ==
    [][\A id \in Ids(participants) :
          (HasEdge(id) /\ id \in Ids(participants')) =>
              RowOf(participants', id).assigned_recipient_id = EdgeFn[id]]_vars

\* C9: a shuffle call goes on to generate only if, when it reads them, the
\* status is Collecting or Ready, there are at least 2 participants and every
\* participant has completed; otherwise it returns an error and the status,
\* shuffled_at and every edge stay as they are.  It returns success only from
\* such a state.  createSecretSantaChain throws for fewer than 2 ids.
C9_ShuffleGuards ==
    [][/\ CallStep("shuffle") =>
             /\ DbUnchanged
             /\ IF status \in {"collecting", "ready"}
                THEN \E r \in Reqs : req'[r].op = "shuffle" /\ req'[r].pc = "sh_list"
                ELSE req' = req /\ last'.result = "conflict"
       /\ \A r \in Reqs : (At(r, "shuffle", "sh_list") /\ req'[r] # req[r]) =>
             /\ DbUnchanged
             /\ IF Len(participants) >= 2
                THEN req'[r].pc = "sh_count"
                ELSE req'[r] = Idle /\ last'.result = "too_few"
       /\ \A r \in Reqs : (At(r, "shuffle", "sh_count") /\ req'[r] # req[r]) =>
             /\ DbUnchanged
             /\ IF AllComplete
                THEN req'[r].pc = "sh_assign"
                ELSE req'[r] = Idle /\ last'.result = "incomplete"
       /\ (last'.op = "shuffle" /\ last'.result = "ok" /\ last' # last) =>
             /\ status \in {"collecting", "ready"}
             /\ Len(participants) >= 2
             /\ AllComplete
       /\ \A n \in 0..MaxIds : ChainThrows([k \in 1..n |-> k]) <=> n < 2]_vars

\* a shuffle was refused for having a single participant
C9_Witness ==
    /\ last = [op |-> "shuffle", result |-> "too_few"]
    /\ Len(participants) = 1
    /\ status = "collecting"

\* C10: when the validator rejects the generated Map the shuffle returns
\* failure and writes nothing: the generate step either returns an error and
\* leaves edges, status and shuffled_at as they are, or goes on to the save
\* loop with a Map that is one cycle through the ids it read.
C10_RejectedMapNotSaved ==
    [][\A r \in Reqs : (At(r, "shuffle", "sh_count") /\ req'[r] # req[r]) =>
          /\ DbUnchanged
          /\ IF req'[r].op = "shuffle"
             THEN /\ req'[r].pc = "sh_assign"
                  /\ OneCycle(Fn(req'[r].asg), Range(req[r].ids))
             ELSE last'.result \in {"incomplete", "validation", "db_error"}]_vars

\* the validator has just rejected a generated Map
C10_Witness ==
    /\ last = [op |-> "shuffle", result |-> "validation"]
    /\ status \in {"collecting", "ready"}
    /\ \A id \in Ids(participants) : ~HasEdge(id)

\* ------------------------------------------------------------ send secrets
\* C11: a send-secrets call goes on only if it reads status Shuffled and
\* secrets_sent_at unset; in every other state it returns an error at once,
\* before any delivery, and status and secrets_sent_at stay as they are.
C11_SendGuard ==
    [][CallStep("send") =>
          /\ DbUnchanged
          /\ IF status = "shuffled" /\ secrets_sent_at = NULL
             THEN \E r \in Reqs : req'[r].op = "send" /\ req'[r].pc = "ss_list"
             ELSE /\ req' = req
                  /\ last'.result \in {"conflict", "already_sent"}]_vars

\* a send was refused on a Complete exchange
C11_Witness ==
    /\ last = [op |-> "send", result |-> "conflict"]
    /\ status = "complete"
    /\ secrets_sent_at # NULL

\* the response of a send run that reached its loop
SendReturned(r) ==
    /\ req[r].op = "send"
    /\ req'[r] = Idle
    /\ last'.result \in {"ok", "partial", "none_sent"}

\* C12: a send run on a Shuffled exchange with secrets_sent_at unset ends
\* with status Complete and secrets_sent_at set if every participant's mail
\* was sent, with status Shuffled and secrets_sent_at set if some but not all
\* were, and with both unchanged if none was.
C12_SendOutcome ==
    [][\A r \in Reqs : SendReturned(r) =>
          /\ shuffled_at' = shuffled_at
          /\ participants' = participants
          /\ IF last'.sentCount = Len(participants)
             THEN /\ last'.result = "ok"
                  /\ status' = "complete"
                  /\ secrets_sent_at' # NULL
             ELSE IF last'.sentCount > 0
             THEN /\ last'.result = "partial"
                  /\ status' = "shuffled"
                  /\ secrets_sent_at' # NULL
             ELSE /\ last'.result = "none_sent"
                  /\ status = "shuffled" /\ status' = "shuffled"
                  /\ secrets_sent_at = NULL /\ secrets_sent_at' = NULL]_vars

\* a run in which some but not all mails were sent has just ended
C12_Witness ==
    /\ last.op = "send"
    /\ last.result = "partial"
    /\ last.sentCount = 2
    /\ Len(participants) = 3
    /\ status = "shuffled"
    /\ secrets_sent_at # NULL

NoDuplicates(seq) == \A a, b \in DOMAIN seq : a # b => seq[a] # seq[b]

\* C13: every iteration of the send loop handles the next participant of the
\* list: it calls the delivery for it exactly if its edge is resolved, goes
\* on to the next participant whatever the outcome, and counts it as sent or
\* as a failure; the loop ends only after the last participant, and the
\* response carries these counts, which add up to the number of participants.
C13_SendLoopIsolatesFailures ==
    [][\A r \in Reqs :
          /\ (At(r, "send", "ss_send") /\ req'[r] # req[r]) =>
                LET rows == req[r].rows
                    i == req[r].i
                    santa == rows[i + 1]
                    goesOn == req'[r].op = "send"
                    out == IF goesOn THEN req'[r] ELSE last'
                    sentCount == IF goesOn THEN req'[r].n ELSE last'.sentCount
                IN  /\ out.mailed = IF Resolved(rows, santa)
                                    THEN Append(req[r].mailed, santa.id)
                                    ELSE req[r].mailed
                    /\ NoDuplicates(out.mailed)
                    /\ sentCount + out.errors = i + 1
                    /\ i + 1 < Len(rows) =>
                          /\ req'[r].pc = "ss_send"
                          /\ req'[r].i = i + 1
                          /\ req'[r].rows = rows
                    /\ i + 1 = Len(rows) => req'[r].pc # "ss_send"
          /\ (At(r, "send", "ss_upd_write") /\ req'[r] # req[r]) =>
                /\ last'.sentCount = req[r].n
                /\ last'.errors = req[r].errors
                /\ last'.mailed = req[r].mailed]_vars

\* a run over three participants in which one delivery failed: all three
\* were called
C13_Witness ==
    /\ last.op = "send"
    /\ last.result = "partial"
    /\ last.sentCount = 2
    /\ last.errors = 1
    /\ Len(last.mailed) = 3

\* C14: once a run has ended in partial success (status Shuffled with
\* secrets_sent_at set) no later operation changes the status: it stays
\* Shuffled.
C14_PartialStaysShuffled ==
    [][(status = "shuffled" /\ secrets_sent_at # NULL) => status' = "shuffled"]_vars

\* after a partial run a further send was refused
C14_Witness ==
    /\ last = [op |-> "send", result |-> "already_sent"]
    /\ status = "shuffled"
    /\ secrets_sent_at # NULL

\* ------------------------------------------------------------ participants
\* C15: in Ready, Shuffled and Complete the set of participants does not
\* change and a remove action does not return success;
\* removing succeeds only in Draft or Collecting.
C15_RemoveOnlyDraftOrCollecting ==
    [][(status \in {"ready", "shuffled", "complete"}) =>
          /\ Ids(participants') = Ids(participants)
          /\ ((last'.op = "remove" /\ last' # last) => last'.result # "ok")]_vars

\* C16: once the status is Shuffled or Complete no operation adds, removes
\* or edits a participant: the participant records, the address included,
\* stay as they are.
C16_ParticipantsFrozenAfterShuffle ==
    [][(status \in {"shuffled", "complete"}) =>
          /\ participants' = participants
          /\ ((last'.op \in {"add", "remove", "email"} /\ last' # last) =>
                 last'.result # "ok")]_vars

\* C17: Complete is terminal: once the status is Complete no operation
\* changes the status, shuffled_at, secrets_sent_at or an assignment edge.
C17_CompleteIsTerminal ==
    [][(status = "complete") =>
          /\ status' = "complete"
          /\ shuffled_at' = shuffled_at
          /\ secrets_sent_at' = secrets_sent_at
          /\ EdgeFn' = EdgeFn]_vars

\* an edit of the exchange was refused on a Complete exchange
C17_Witness ==
    /\ last = [op |-> "edit", result |-> "conflict"]
    /\ status = "complete"
    /\ \A id \in Ids(participants) : HasEdge(id)

\* C18: when the exchange is Collecting and a submission completes the last
\* outstanding questionnaire (at least one participant, all completed), the
\* status is Ready once the submission has returned.
C18_LastSubmissionMakesReady ==
    [][\A r \in Reqs :
          (/\ req[r].op = "submit"
           /\ req'[r] = Idle
           /\ last'.result = "ok"
           /\ status = "collecting"
           /\ ~AllComplete
           /\ Len(participants') >= 1
           /\ AllComplete') => status' = "ready"]_vars

\* C19: an add-participant call is refused in Ready, Shuffled and Complete
\* and otherwise goes on; when it returns success the status is Collecting,
\* whether the call found Draft or Collecting.
C19_AddMovesDraftToCollecting ==
    [][/\ CallStep("add") =>
             /\ DbUnchanged
             /\ IF status \in {"draft", "collecting"}
                THEN \E r \in Reqs : req'[r].op = "add"
                ELSE req' = req /\ last'.result = "conflict"
       /\ \A r \in Reqs :
             (req[r].op = "add" /\ req'[r] = Idle /\ last'.result = "ok") =>
                 /\ req[r].ex.status \in {"draft", "collecting"}
                 /\ status' = "collecting"]_vars

\* the first participant was added to a Draft exchange
C19_Witness ==
    /\ last = [op |-> "add", result |-> "ok"]
    /\ status = "collecting"
    /\ Len(participants) = 1
    /\ nextId = 2

\* the defects the returned reason names: the message of an invalid result
\* is that of one check
Mentions(result) == IF result.valid THEN {} ELSE {result.kind}

\* a bijection with a fixed point and, apart from it, a 2-cycle
FixedPointAndTwoCycle(m) ==
    /\ MapKeys(m) = MapValues(m)
    /\ \E c \in MapKeys(m) : Fn(m)[c] = c
    /\ \E a, b \in MapKeys(m) : a # b /\ Fn(m)[a] = b /\ Fn(m)[b] = a

\* C20: for a mapping with a fixed point and a separate 2-cycle the validator
\* returns invalid and the reason names both the self-assignment and the
\* presence of more than one cycle.
C20_ReasonNamesBothDefects ==
    (vPc = "done" /\ FixedPointAndTwoCycle(vIn)) =>
        /\ ~vOut.valid
        /\ {"SelfAssignment", "MultipleCycles"} \subseteq Mentions(vOut)

\* ------------------------------------------------------- draws and cycles
\* the draw sequences of one shuffle of n elements: a draw for every
\* i = n-1 down to 1, each a value secureRandomInt(i) can return
DrawSeqs(n) == {d \in [1..(n - 1) -> 0..(n - 1)] : \A i \in 1..(n - 1) : d[i] \in secureRandomInt(i)}

\* the loop of sattoloShuffleInPlace, entered at i, with the draws d
RECURSIVE LoopWithDraws(_, _, _)
LoopWithDraws(array, i, d) ==
    IF i > 0 THEN LoopWithDraws(Swap(array, i, d[i]), i - 1, d) ELSE array

\* the chain the draws d give for these ids, as a function
ChainOfDraws(ids, d) ==
    Fn(BuildChain(ids, LoopWithDraws(ids, Len(ids) - 1, d), 0, <<>>))

\* every n-cycle on S
NCycles(S) == {f \in [S -> S] : OneCycle(f, S)}

RECURSIVE Factorial(_)
Factorial(n) == IF n <= 1 THEN 1 ELSE n * Factorial(n - 1)

\* C21: for n >= 2 distinct ids the draw sequences (j_i in [0, i-1]) map one
\* to one onto the n-cycles on the ids, of which there are (n-1)!; the chain
\* a run returns is that of exactly one draw sequence.
C21_DrawsToCyclesBijection ==
    LET n == Len(sIds)
        D == DrawSeqs(n)
    IN  /\ (sPc = "call" /\ n >= 2) =>
              /\ \A d1, d2 \in D :
                    ChainOfDraws(sIds, d1) = ChainOfDraws(sIds, d2) => d1 = d2
              /\ {ChainOfDraws(sIds, d) : d \in D} = NCycles(Range(sIds))
              /\ Cardinality(NCycles(Range(sIds))) = Factorial(n - 1)
        /\ sPc = "done" =>
              Cardinality({d \in D : ChainOfDraws(sIds, d) = Fn(sChain)}) = 1

\* a run over 3 or more ids returned a chain other than the rotation
\* ids[i] -> ids[i+1]
C21_Witness ==
    /\ sPc = "done"
    /\ Len(sIds) >= 3
    /\ Fn(sChain)[sIds[1]] # sIds[2]

\* --------------------------------------------------- order of the checks
HasSelfAssignment(m) == \E k \in DOMAIN m : m[k][1] = m[k][2]

\* C23: the validator reports the first check that fails, in the order key
\* set = value set, no self-assignment, single cycle: a Map whose key and
\* value sets differ is reported as a key/value mismatch even with a
\* self-assignment in it, and a Map with equal sets and a self-assignment is
\* reported as a self-assignment even with several cycles.
C23_FirstFailingCheckReported ==
    vPc = "done" =>
        /\ MapKeys(vIn) # MapValues(vIn) =>
              ~vOut.valid /\ vOut.kind \in {"Mismatched", "NotASanta"}
        /\ (MapKeys(vIn) = MapValues(vIn) /\ HasSelfAssignment(vIn)) =>
              ~vOut.valid /\ vOut.kind = "SelfAssignment"
        /\ (MapKeys(vIn) = MapValues(vIn) /\ ~HasSelfAssignment(vIn) /\ ~vOut.valid) =>
              vOut.kind \in {"MultipleCycles", "NotClosed"}

\* a Map with a self-assignment whose key and value sets differ was reported
\* as a mismatch
C23_Witness ==
    /\ vPc = "done"
    /\ HasSelfAssignment(vIn)
    /\ MapKeys(vIn) # MapValues(vIn)
    /\ vOut.kind \in {"Mismatched", "NotASanta"}

\* C30: the validator never returns valid for a Map with fewer than 2
\* entries.
C30_SmallMapsInvalid ==
    (vPc = "done" /\ Len(vIn) < 2) => ~vOut.valid

\* ------------------------------------------------------ completion flag
FlagOf(rows, id) == RowOf(rows, id).questionnaire_completed_at

\* this step is request r's call of markQuestionnaireCompleted
MarkStep(r) == At(r, "submit", "sq_mark") /\ req'[r].op = "idle"

\* C22: once a participant's questionnaire_completed_at is non-null no step
\* clears it and no submission of that participant writes it again.
C22_FlagSetOnce ==
    [][\A id \in Ids(participants) :
          (FlagOf(participants, id) # NULL) =>
              /\ (id \in Ids(participants')) =>
                     (FlagOf(participants', id) = FlagOf(participants, id))
              /\ \A r \in Reqs : ~(MarkStep(r) /\ req[r].pid = id)]_vars

\* ------------------------------------------ the all-complete notification
\* this step belongs to a call of checkAndNotifyAllComplete in slot r
NotifyStep(r) == req[r].op = "notify" /\ req'[r] # req[r]

\* C24: a call of checkAndNotifyAllComplete sets the status to Ready and
\* mails the organizer only when all participants (at least one) have
\* completed and the status is Collecting; a call on a Draft, Ready, Shuffled
\* or Complete exchange changes nothing and sends nothing; over calls made
\* one after the other the organizer is mailed at most once.
C24_NotifyOnlyOnceWhenComplete ==
    [][\A r \in Reqs :
          NotifyStep(r) =>
              /\ (status' # status \/ allCompleteSent' # allCompleteSent
                      \/ last'.result = "notified") =>
                     /\ Len(participants) > 0
                     /\ AllComplete
                     /\ status = "collecting"
                     /\ status' = "ready"
              /\ (status # "collecting") =>
                     (DbUnchanged /\ allCompleteSent' = allCompleteSent)
              /\ (last'.result = "notified") => ~allCompleteSent]_vars

\* a second call, after the one that mailed the organizer, did nothing
C24_Witness ==
    /\ allCompleteSent
    /\ status = "ready"
    /\ last = [op |-> "notify", result |-> "not_collecting"]

\* --------------------------------------------- one assignment mail each
\* the participants request r has delivered an assignment mail to, known
\* while none of its deliveries has failed: all it has called for
DeliveredBy(r) ==
    IF req[r].op = "send" /\ req[r].errors = 0 THEN Range(req[r].mailed) ELSE {}

\* C25: across interleaved send-secrets requests no participant is delivered
\* an assignment mail by two of them (requests whose deliveries all failed
\* deliver to nobody).
C25_MailedAtMostOnce ==
    \A r1, r2 \in Reqs : r1 # r2 => DeliveredBy(r1) \cap DeliveredBy(r2) = {}

\* ------------------------------------------------- frame of the edit action
\* C26: no step of the edit-exchange-details action changes the stored
\* status, shuffled_at or secrets_sent_at, whatever other requests have
\* written between the edit's read and its write.
C26_EditKeepsStatusAndTimestamps ==
    [][\A r \in Reqs :
          (req[r].op = "edit" /\ req'[r] # req[r]) =>
              /\ status' = status
              /\ shuffled_at' = shuffled_at
              /\ secrets_sent_at' = secrets_sent_at]_vars

\* ------------------------------------------------ status and timestamps
\* C27: in every reachable state shuffled_at is set exactly if the status is
\* Shuffled or Complete, secrets_sent_at is set only if the status is
\* Shuffled or Complete, and the status Complete has secrets_sent_at set.
C27_TimestampsMatchStatus ==
    /\ (shuffled_at # NULL) <=> (status \in {"shuffled", "complete"})
    /\ (secrets_sent_at # NULL) => (status \in {"shuffled", "complete"})
    /\ (status = "complete") => (secrets_sent_at # NULL)

\* ------------------------------------------------ Ready means all complete
\* C28: whenever the status is Ready every current participant has a
\* completed questionnaire.
C28_ReadyImpliesAllComplete == (status = "ready") => AllComplete

\* ------------------------------------- no questionnaire write after shuffle
QuestionnaireOf(rows, id) == RowOf(rows, id).questionnaire

\* this step is request r's INSERT or UPDATE of upsertQuestionnaire, and it
\* did not throw
UpsertWriteStep(r) ==
    /\ At(r, "submit", "sq_up_write")
    /\ req'[r] # req[r]
    /\ last'.result # "db_error"

\* C29: once the status is Shuffled or Complete no step creates or changes a
\* participant's questionnaire or sets a completion flag, and a submission
\* that returns then returns an error.
C29_NoQuestionnaireWriteAfterShuffle ==
    [][(status \in {"shuffled", "complete"}) =>
          /\ \A id \in Ids(participants) \cap Ids(participants') :
                 /\ QuestionnaireOf(participants', id) = QuestionnaireOf(participants, id)
                 /\ FlagOf(participants', id) = FlagOf(participants, id)
          /\ \A r \in Reqs : ~(MarkStep(r) \/ UpsertWriteStep(r))
          /\ ((last'.op = "submit" /\ last' # last) => last'.result # "ok")]_vars

====
